---------------------------- MODULE Spec2Model ----------------------------
(***************************************************************************)
(* Model of scripts/generate_icon.py: the PNG encoder create_png, the      *)
(* shader generate_orb_icon and the driver main.                           *)
(*                                                                         *)
(* Three specifications share the module:                                  *)
(*   SpecPng   one call of create_png(width, height, pixels)               *)
(*   SpecOrb   one call of generate_orb_icon(size)                         *)
(*   SpecMain  one run of main() over an arbitrary prior output directory  *)
(* The variables of the programs a specification does not run stay at      *)
(* their idle values.                                                      *)
(***************************************************************************)
EXTENDS Integers, Sequences, FiniteSets, TLC

VARIABLES
    \* create_png
    width, height, pixels,  \* the arguments
    raw,                    \* the scanline buffer (bytes)
    y, x,                   \* the loop counters
    pc,                     \* "idle" | "row" | "pix" | "done" | "raised"
    out,                    \* the returned byte buffer (<<>> until returned)
    \* generate_orb_icon
    size,                   \* the argument
    gy, gx,                 \* the loop counters y, x
    gpixels,                \* the list pixels
    gpc,                    \* "idle" | "loop" | "done"
    \* main
    dirExists,              \* whether the iconset directory exists
    fs,                     \* file name -> content of the iconset directory
    mi,                     \* position in the size list being iterated
    mpc                     \* "idle" | "makedirs" | "write" | "copy" | "done" | "crashed"

pngVars  == <<width, height, pixels, raw, y, x, pc, out>>
orbVars  == <<size, gy, gx, gpixels, gpc>>
mainVars == <<dirExists, fs, mi, mpc>>
vars     == <<pngVars, orbVars, mainVars>>

-----------------------------------------------------------------------------
(* Bounds of the model *)

\* Largest width and height passed to create_png.
MaxDim == 2
\* Longest pixel sequence passed to create_png.
MaxLen == 5
\* Largest size passed to generate_orb_icon.
MaxSize == 3
\* Fixed-point scale: a real v is carried as the integer v * Q, between a
\* lower and an upper bound << lo, hi >> that enclose the value the floats take.
Q == 10000

-----------------------------------------------------------------------------
(* Bytes *)

RECURSIVE Concat(_)
\* b''.join(seq of byte strings)
Concat(ss) == IF ss = <<>> THEN <<>> ELSE Head(ss) \o Concat(Tail(ss))

Slice(s, from, to) == IF to < from THEN <<>> ELSE SubSeq(s, from, to)

\* struct.pack('>I', n): four bytes, most significant first.
PackBE32(n) ==
    << (n \div 16777216) % 256, (n \div 65536) % 256, (n \div 256) % 256, n % 256 >>

UnpackBE32(b) == ((b[1] * 256 + b[2]) * 256 + b[3]) * 256 + b[4]

\* struct.pack('B', v)
PackB(v) == << v >>

\* variant: the channels packed in the order b, g, r, a
PackBBBB_bgra(p) == << p[3], p[2], p[1], p[4] >>
\* struct.pack('BBBB', r, g, b, a) of a pixel (r, g, b, a)
PackBBBB(p) == << p[1], p[2], p[3], p[4] >>

-----------------------------------------------------------------------------
(* zlib.crc32: CRC-32 (reflected, polynomial EDB88320).  The 32-bit        *)
(* register is kept as its two 16-bit halves << hi, lo >>.                 *)

RECURSIVE Xor(_, _, _)
\* a ^ b on n-bit values
Xor(a, b, n) ==
    IF n = 0 THEN 0
    ELSE (((a % 2) + (b % 2)) % 2) + 2 * Xor(a \div 2, b \div 2, n - 1)

CrcPolyHi == 60856      \* EDB8
CrcPolyLo == 33568      \* 8320

\* one bit of input: crc = (crc >> 1) ^ (poly if (crc ^ bit) & 1 else 0)
CrcShift(c, bit) ==
    LET fb == (c[2] + bit) % 2
        hi == c[1] \div 2
        lo == (c[2] \div 2) + (c[1] % 2) * 32768
    IN  IF fb = 1 THEN << Xor(hi, CrcPolyHi, 16), Xor(lo, CrcPolyLo, 16) >>
        ELSE << hi, lo >>

RECURSIVE CrcByte(_, _, _)
CrcByte(c, b, k) ==
    IF k = 0 THEN c ELSE CrcByte(CrcShift(c, b % 2), b \div 2, k - 1)

RECURSIVE CrcBytes(_, _, _)
\* the register after data[i..]; each byte's register is evaluated before
\* the next byte is taken
CrcBytes(c, data, i) ==
    IF i > Len(data) THEN c
    ELSE LET n == CrcByte(c, data[i], 8)
         IN  IF n[1] >= 0 THEN CrcBytes(n, data, i + 1) ELSE n

\* struct.pack('>I', zlib.crc32(c) & 0xffffffff)
Crc32BE(data) ==
    LET c  == CrcBytes(<< 65535, 65535 >>, data, 1)
        hi == 65535 - c[1]
        lo == 65535 - c[2]
    IN  << hi \div 256, hi % 256, lo \div 256, lo % 256 >>

-----------------------------------------------------------------------------
(* zlib.compress(raw, 9).  zlib is a library: its output is modelled as    *)
(* the zlib container (RFC 1950: CMF/FLG of level 9, deflate body,         *)
(* big-endian Adler-32 of the input) around one stored deflate block       *)
(* (RFC 1951: final-block header, LEN, NLEN, the bytes).                   *)

AdlerMod == 65521

RECURSIVE AdlerAB(_, _, _, _)
AdlerAB(data, i, a, b) ==
    IF i > Len(data) THEN << a, b >>
    ELSE LET a2 == (a + data[i]) % AdlerMod
         IN  AdlerAB(data, i + 1, a2, (b + a2) % AdlerMod)

Adler32BE(data) ==
    LET ab == AdlerAB(data, 1, 1, 0)
    IN  << ab[2] \div 256, ab[2] % 256, ab[1] \div 256, ab[1] % 256 >>

ZlibHeader == << 120, 218 >>     \* 78 DA

ZlibCompress(data) ==
    LET n == Len(data)
    IN  ZlibHeader
        \o << 1, n % 256, n \div 256, (65535 - n) % 256, (65535 - n) \div 256 >>
        \o data
        \o Adler32BE(data)

Failed == [ok |-> FALSE]

\* zlib.decompress of such a stream: the bytes, or Failed
ZlibDecompress(z) ==
    IF Len(z) < 11 \/ Slice(z, 1, 2) # ZlibHeader \/ z[3] # 1 THEN Failed
    ELSE LET n    == z[4] + 256 * z[5]
             nn   == z[6] + 256 * z[7]
             data == Slice(z, 8, 7 + n)
         IN  IF nn # 65535 - n \/ Len(z) # n + 11 THEN Failed
             ELSE IF Slice(z, 8 + n, 11 + n) # Adler32BE(data) THEN Failed
             ELSE [ok |-> TRUE, data |-> data]

-----------------------------------------------------------------------------
(* create_png *)

TagIHDR == << 73, 72, 68, 82 >>
TagIDAT == << 73, 68, 65, 84 >>
TagIEND == << 73, 69, 78, 68 >>

\* sig = b'\x89PNG\r\n\x1a\n'
sig == << 137, 80, 78, 71, 13, 10, 26, 10 >>

\* variant: the CRC taken over the payload alone
chunk_crc_of_data(ctype, data) == PackBE32(Len(data)) \o ctype \o data \o Crc32BE(data)
\* def chunk(ctype, data)
chunk(ctype, data) ==
    LET c == ctype \o data
    IN  PackBE32(Len(data)) \o c \o Crc32BE(c)

\* variant: height packed before width
ihdr_swapped(w, h) == PackBE32(h) \o PackBE32(w) \o << 8, 6, 0, 0, 0 >>
\* ihdr = struct.pack('>IIBBBBB', width, height, 8, 6, 0, 0, 0)
ihdr(w, h) == PackBE32(w) \o PackBE32(h) \o << 8, 6, 0, 0, 0 >>

\* the returned expression
png_bytes(w, h, rawbuf) ==
    sig \o chunk(TagIHDR, ihdr(w, h)) \o chunk(TagIDAT, ZlibCompress(rawbuf))
        \o chunk(TagIEND, <<>>)

\* variant: the row offset y * width dropped
pixel_index_x_only(yy, w, xx) == xx
\* the index y * width + x
pixel_index(yy, w, xx) == yy * w + xx

\* Pixels the model passes in; every channel is in 0..255.
PixelVals == { << 0, 0, 0, 0 >>, << 255, 128, 1, 37 >> }

RECURSIVE SeqsUpTo(_, _)
SeqsUpTo(S, n) ==
    IF n = 0 THEN { <<>> }
    ELSE LET shorter == SeqsUpTo(S, n - 1)
         IN  shorter \cup { Append(s, e) : s \in { t \in shorter : Len(t) = n - 1 }, e \in S }

OrbIdle  == /\ size = 0 /\ gy = 0 /\ gx = 0 /\ gpixels = <<>> /\ gpc = "idle"
MainIdle == /\ dirExists = FALSE /\ fs = <<>> /\ mi = 0 /\ mpc = "idle"
PngIdle  == /\ width = 0 /\ height = 0 /\ pixels = <<>> /\ raw = <<>>
            /\ y = 0 /\ x = 0 /\ pc = "idle" /\ out = <<>>

InitPng ==
    /\ width \in 1..MaxDim
    /\ height \in 1..MaxDim
    /\ pixels \in SeqsUpTo(PixelVals, MaxLen)
    /\ raw = <<>>
    /\ y = 0
    /\ x = 0
    /\ pc = "row"
    /\ out = <<>>
    /\ OrbIdle
    /\ MainIdle

\* for y in range(height): raw += b'\x00'
PngRow ==
    /\ pc = "row"
    /\ y < height
    /\ raw' = raw \o PackB(0)
    /\ x' = 0
    /\ pc' = "pix"
    /\ UNCHANGED <<width, height, pixels, y, out>>
    /\ UNCHANGED <<orbVars, mainVars>>

\* for x in range(width): r, g, b, a = pixels[y * width + x]; raw += pack(...)
PngPixel ==
    /\ pc = "pix"
    /\ x < width
    /\ pixel_index(y, width, x) < Len(pixels)
    /\ raw' = raw \o PackBBBB(pixels[pixel_index(y, width, x) + 1])
    /\ x' = x + 1
    /\ UNCHANGED <<width, height, pixels, y, pc, out>>
    /\ UNCHANGED <<orbVars, mainVars>>

\* pixels[y * width + x] past the end of the sequence: IndexError
PngIndexError ==
    /\ pc = "pix"
    /\ x < width
    /\ pixel_index(y, width, x) >= Len(pixels)
    /\ pc' = "raised"
    /\ UNCHANGED <<width, height, pixels, raw, y, x, out>>
    /\ UNCHANGED <<orbVars, mainVars>>

\* the inner loop is exhausted: next y
PngRowEnd ==
    /\ pc = "pix"
    /\ x = width
    /\ y' = y + 1
    /\ pc' = "row"
    /\ UNCHANGED <<width, height, pixels, raw, x, out>>
    /\ UNCHANGED <<orbVars, mainVars>>

\* the outer loop is exhausted: build the chunks and return
PngReturn ==
    /\ pc = "row"
    /\ y = height
    /\ out' = png_bytes(width, height, raw)
    /\ pc' = "done"
    /\ UNCHANGED <<width, height, pixels, raw, y, x>>
    /\ UNCHANGED <<orbVars, mainVars>>

NextPng ==
    \/ PngRow
    \/ PngPixel
    \/ PngIndexError
    \/ PngRowEnd
    \/ PngReturn

SpecPng == InitPng /\ [][NextPng]_vars

-----------------------------------------------------------------------------
(* generate_orb_icon.  Reals are enclosed in fixed-point brackets; the     *)
(* layers between the mask test and the final clamp (background, aurora,   *)
(* orb, highlights, ring: sin, atan2, sqrt and fractional powers of the    *)
(* coordinates) are abstracted to the accumulated colour they leave in     *)
(* fr, fg, fb, which may be any of AccColours.                             *)

Abs(v) == IF v < 0 THEN -v ELSE v
Min(a, b) == IF a < b THEN a ELSE b
Max(a, b) == IF a > b THEN a ELSE b
CeilDiv(a, b) == (a + b - 1) \div b

MulLo(a, b) == (a * b) \div Q
MulHi(a, b) == CeilDiv(a * b, Q)

Pow4Lo(u) == LET s == MulLo(u, u) IN MulLo(s, s)
Pow4Hi(u) == LET s == MulHi(u, u) IN MulHi(s, s)
Pow5Lo(u) == MulLo(Pow4Lo(u), u)
Pow5Hi(u) == MulHi(Pow4Hi(u), u)

RootMax == Q + Q \div 2

RECURSIVE Root5Lo(_, _, _)
\* the largest r in lo..hi with r^5 <= w (bisection)
Root5Lo(w, lo, hi) ==
    IF lo >= hi THEN lo
    ELSE LET mid == (lo + hi + 1) \div 2
         IN  IF Pow5Hi(mid) <= w THEN Root5Lo(w, mid, hi) ELSE Root5Lo(w, lo, mid - 1)

RECURSIVE Root5Hi(_, _, _)
\* the smallest r in lo..hi with r^5 >= w (bisection)
Root5Hi(w, lo, hi) ==
    IF lo >= hi THEN hi
    ELSE LET mid == (lo + hi) \div 2
         IN  IF Pow5Lo(mid) >= w THEN Root5Hi(w, lo, mid) ELSE Root5Hi(w, mid + 1, hi)

\* u ** n_exp with n_exp = 4.8, as u^4 * (u^4)^(1/5)
pow_n_exp(u) ==
    LET wl == Pow4Lo(u[1])
        wh == Pow4Hi(u[2])
    IN  << MulLo(wl, Root5Lo(wl, 0, RootMax)), MulHi(wh, Root5Hi(wh, 0, RootMax)) >>

\* variant: the pixel sampled at its centre, x + 0.5
abs_n_centre(c, S) ==
    LET num == Abs(2 * c + 1 - S) * 25 * Q
    IN  << num \div (22 * S), CeilDiv(num, 22 * S) >>
\* abs(nx) for nx = (x - cx) / (size * 0.44), cx = size / 2.0:
\* |2x - size| * 25 / (22 * size)
abs_n(c, S) ==
    LET num == Abs(2 * c - S) * 25 * Q
    IN  << num \div (22 * S), CeilDiv(num, 22 * S) >>

\* abs(n) ** n_exp for each coordinate c of each size S
PowTable ==
    [S \in 1..MaxSize |-> [c \in 0..(S - 1) |-> pow_n_exp(abs_n(c, S))]]

\* sq = abs(nx) ** n_exp + abs(ny) ** n_exp; the bracket is one unit wider
\* on each side than the reals need, which covers the floats' rounding
sq(xx, yy, S) ==
    LET px == PowTable[S][xx]
        py == PowTable[S][yy]
    IN  << Max(0, px[1] + py[1] - 1), px[2] + py[2] + 1 >>

\* variant: the mask test against 2.0
mask_limit_2 == 2 * Q
\* the 1.0 of `if sq > 1.0`
mask_limit == Q

\* sq > 1.0 may be true / may be false
sq_may_exceed(xx, yy, S) == sq(xx, yy, S)[2] > mask_limit
sq_may_pass(xx, yy, S)   == sq(xx, yy, S)[1] <= mask_limit

\* t * t * (3.0 - 2.0 * t) for t in [0, 1]
hermite(t) ==
    << MulLo(MulLo(t[1], t[1]), 3 * Q - 2 * t[1]), MulHi(MulHi(t[2], t[2]), 3 * Q - 2 * t[2]) >>

\* smoothstep(1.0, 0.96, s): t = max(0.0, min(1.0, (s - 1.0) / (0.96 - 1.0)))
\*                             = max(0, min(1, 25 * (1 - s)))
edge_smoothstep(s) ==
    hermite(<< Max(0, Min(Q, 25 * (Q - s[2]))), Max(0, Min(Q, 25 * (Q - s[1]))) >>)

\* int(v): truncation towards zero
int(v) == IF v >= 0 THEN v \div Q ELSE -((-v) \div Q)

\* variant: the max(0, ...) dropped
clamp_no_floor(v) == Min(255, int(v))
\* def clamp(v)
clamp(v) == Max(0, Min(255, int(v)))

\* Values of (fr, fg, fb) before the final clamp: below 0, inside and above
\* 255, with and without a fractional part.
AccColours ==
    { << -(7 * Q) \div 2, 127 * Q + (9 * Q) \div 10, 300 * Q >>,
      << 255 * Q + Q \div 2, 0, 256 * Q >>,
      << 20 * Q, 230 * Q, 255 * Q >> }

\* the pixels the shaded path may append at (x, y)
shaded_pixels(xx, yy, S) ==
    LET edge_aa == edge_smoothstep(sq(xx, yy, S))
    IN  { << clamp(c[1]), clamp(c[2]), clamp(c[3]), clamp(a) >> :
            c \in AccColours, a \in (255 * edge_aa[1])..(255 * edge_aa[2]) }

\* variant: the loops nested the other way round
next_xy_column_major(yy, xx, S) ==
    IF yy + 1 < S THEN << yy + 1, xx >> ELSE << 0, xx + 1 >>
\* for y in range(size): for x in range(size): the position after (y, x);
\* y = size when the loops are exhausted
next_xy(yy, xx, S) ==
    IF xx + 1 < S THEN << yy, xx + 1 >> ELSE << yy + 1, 0 >>

Exhausted(yy, xx, S) == yy >= S \/ xx >= S

InitOrb ==
    /\ size \in 1..MaxSize
    /\ gy = 0
    /\ gx = 0
    /\ gpixels = <<>>
    /\ gpc = "loop"
    /\ PngIdle
    /\ MainIdle

\* if sq > 1.0: pixels.append((0, 0, 0, 0)); continue
OrbMasked ==
    /\ gpc = "loop"
    /\ ~Exhausted(gy, gx, size)
    /\ sq_may_exceed(gx, gy, size)
    /\ gpixels' = Append(gpixels, << 0, 0, 0, 0 >>)
    /\ gy' = next_xy(gy, gx, size)[1]
    /\ gx' = next_xy(gy, gx, size)[2]
    /\ UNCHANGED <<size, gpc>>
    /\ UNCHANGED <<pngVars, mainVars>>

\* otherwise: the layers, then
\* pixels.append((clamp(fr), clamp(fg), clamp(fb), clamp(255 * edge_aa)))
OrbShaded ==
    /\ gpc = "loop"
    /\ ~Exhausted(gy, gx, size)
    /\ sq_may_pass(gx, gy, size)
    /\ \E p \in shaded_pixels(gx, gy, size) : gpixels' = Append(gpixels, p)
    /\ gy' = next_xy(gy, gx, size)[1]
    /\ gx' = next_xy(gy, gx, size)[2]
    /\ UNCHANGED <<size, gpc>>
    /\ UNCHANGED <<pngVars, mainVars>>

\* return pixels
OrbReturn ==
    /\ gpc = "loop"
    /\ Exhausted(gy, gx, size)
    /\ gpc' = "done"
    /\ UNCHANGED <<size, gy, gx, gpixels>>
    /\ UNCHANGED <<pngVars, mainVars>>

NextOrb ==
    \/ OrbMasked
    \/ OrbShaded
    \/ OrbReturn

SpecOrb == InitOrb /\ [][NextOrb]_vars

-----------------------------------------------------------------------------
(* main.  The iconset directory is a function from the names of the files  *)
(* it holds to their content: the bytes and the modification time ("old":  *)
(* before this run, "run": written by this run), which shutil.copy2        *)
(* copies along with the bytes.  Bytes of the icons are kept symbolically. *)

\* variant: the size 64 missing from the list
sizes_without_64 == << 16, 32, 128, 256, 512, 1024 >>
\* for s in [16, 32, 64, 128, 256, 512, 1024]
sizes == << 16, 32, 64, 128, 256, 512, 1024 >>

\* variant: 1024 among the @2x sizes
copy_sizes_with_1024 == << 16, 32, 128, 256, 512, 1024 >>
\* for s in [16, 32, 128, 256, 512]
copy_sizes == << 16, 32, 128, 256, 512 >>

\* f"icon_{s}x{s}.png"
icon_name(s) == << "icon_", s, "x", s, ".png" >>
\* f"icon_{s}x{s}@2x.png"
icon_name_2x(s) == << "icon_", s, "x", s, "@2x.png" >>

\* src = f"icon_{s*2}x{s*2}.png"
src(s) == icon_name(s * 2)
\* dst = f"icon_{s}x{s}@2x.png"
dst(s) == icon_name_2x(s)

\* data = create_png(s, s, generate_orb_icon(s))
icon_data(s) == [width |-> s, height |-> s, pixels |-> << "generate_orb_icon", s >>]

\* os.path.exists(name)
exists(dir, name) == name \in DOMAIN dir

\* the directory after name is (over)written with content
put(dir, name, content) ==
    [n \in DOMAIN dir \cup {name} |-> IF n = name THEN content ELSE dir[n]]

\* content left by an earlier run or by anyone else
StaleFile   == [data |-> "stale", mtime |-> "old"]
\* content left by an open(..., "wb") or a copy that failed midway
PartialFile == [data |-> "partial", mtime |-> "run"]

RECURSIVE Range(_)
Range(q) == IF q = <<>> THEN {} ELSE {Head(q)} \cup Range(Tail(q))

\* the names a prior run of the script may have left
PriorNames ==
    { icon_name(s) : s \in Range(sizes) } \cup { icon_name_2x(s) : s \in Range(copy_sizes) }

InitMain ==
    /\ dirExists \in BOOLEAN
    /\ fs \in IF dirExists
              THEN UNION { [D -> {StaleFile}] : D \in SUBSET PriorNames }
              ELSE { <<>> }
    /\ mi = 1
    /\ mpc = "makedirs"
    /\ PngIdle
    /\ OrbIdle

\* os.makedirs(iconset, exist_ok=True)
MainMakedirs ==
    /\ mpc = "makedirs"
    /\ dirExists' = TRUE
    /\ mpc' = "write"
    /\ UNCHANGED <<fs, mi>>
    /\ UNCHANGED <<pngVars, orbVars>>

\* os.makedirs raises OSError (no permission, a file in the way)
MainMakedirsFail ==
    /\ mpc = "makedirs"
    /\ ~dirExists
    /\ mpc' = "crashed"
    /\ UNCHANGED <<dirExists, fs, mi>>
    /\ UNCHANGED <<pngVars, orbVars>>

\* one iteration of the first loop: render, encode, open(..., "wb"), write
MainWrite ==
    /\ mpc = "write"
    /\ mi <= Len(sizes)
    /\ fs' = put(fs, icon_name(sizes[mi]), [data |-> icon_data(sizes[mi]), mtime |-> "run"])
    /\ IF mi = Len(sizes) THEN mpc' = "copy" /\ mi' = 1
                           ELSE mpc' = mpc /\ mi' = mi + 1
    /\ UNCHANGED dirExists
    /\ UNCHANGED <<pngVars, orbVars>>

\* open or write raises OSError: the file is untouched or left partial
MainWriteFail ==
    /\ mpc = "write"
    /\ mi <= Len(sizes)
    /\ \/ fs' = fs
       \/ fs' = put(fs, icon_name(sizes[mi]), PartialFile)
    /\ mpc' = "crashed"
    /\ UNCHANGED <<dirExists, mi>>
    /\ UNCHANGED <<pngVars, orbVars>>

\* one iteration of the second loop:
\* if os.path.exists(src): shutil.copy2(src, dst)
MainCopy ==
    /\ mpc = "copy"
    /\ mi <= Len(copy_sizes)
    /\ fs' = IF exists(fs, src(copy_sizes[mi]))
             THEN put(fs, dst(copy_sizes[mi]), fs[src(copy_sizes[mi])])
             ELSE fs
    /\ IF mi = Len(copy_sizes) THEN mpc' = "done" /\ mi' = mi + 1
                                ELSE mpc' = mpc /\ mi' = mi + 1
    /\ UNCHANGED dirExists
    /\ UNCHANGED <<pngVars, orbVars>>

\* shutil.copy2 raises OSError: dst is untouched or left partial
MainCopyFail ==
    /\ mpc = "copy"
    /\ mi <= Len(copy_sizes)
    /\ exists(fs, src(copy_sizes[mi]))
    /\ \/ fs' = fs
       \/ fs' = put(fs, dst(copy_sizes[mi]), PartialFile)
    /\ mpc' = "crashed"
    /\ UNCHANGED <<dirExists, mi>>
    /\ UNCHANGED <<pngVars, orbVars>>

NextMain ==
    \/ MainMakedirs
    \/ MainMakedirsFail
    \/ MainWrite
    \/ MainWriteFail
    \/ MainCopy
    \/ MainCopyFail

SpecMain == InitMain /\ [][NextMain]_vars

-----------------------------------------------------------------------------
(* A reference PNG decoder for the subset create_png writes: 8-bit RGBA,   *)
(* not interlaced, filter type 0 on every row.                             *)

BadChunk == [ok |-> FALSE, ctype |-> <<>>, data |-> <<>>, crc |-> <<>>]

RECURSIVE ReadChunks(_, _)
\* the chunks of b from position pos on, each cut out by its length field
ReadChunks(b, pos) ==
    IF pos = Len(b) + 1 THEN <<>>
    ELSE IF pos + 11 > Len(b) \/ b[pos] # 0 THEN << BadChunk >>
    ELSE LET n == UnpackBE32(Slice(b, pos, pos + 3))
         IN  IF pos + 11 + n > Len(b) THEN << BadChunk >>
             ELSE << [ok    |-> TRUE,
                      ctype |-> Slice(b, pos + 4, pos + 7),
                      data  |-> Slice(b, pos + 8, pos + 7 + n),
                      crc   |-> Slice(b, pos + 8 + n, pos + 11 + n)] >>
                  \o ReadChunks(b, pos + 12 + n)

ChunkSound(c) == c.ok /\ c.crc = Crc32BE(c.ctype \o c.data)

\* the pixels of the unfiltered scanlines, row-major
Regroup(data, w, h) ==
    [i \in 1..(w * h) |->
        LET row  == (i - 1) \div w
            col  == (i - 1) % w
            base == row * (1 + 4 * w) + 1 + 4 * col
        IN  << data[base + 1], data[base + 2], data[base + 3], data[base + 4] >>]

PngDecode(b) ==
    IF Len(b) < 8 \/ Slice(b, 1, 8) # sig THEN Failed
    ELSE LET cs == ReadChunks(b, 9)
             n  == Len(cs)
         IN  IF n < 3 \/ \E i \in 1..n : ~ChunkSound(cs[i]) THEN Failed
             ELSE IF \/ cs[1].ctype # TagIHDR
                     \/ Len(cs[1].data) # 13
                     \/ cs[n].ctype # TagIEND
                     \/ cs[n].data # <<>>
                     \/ \E i \in 2..(n - 1) : cs[i].ctype # TagIDAT
                  THEN Failed
             ELSE LET hd == cs[1].data
                      w  == UnpackBE32(Slice(hd, 1, 4))
                      h  == UnpackBE32(Slice(hd, 5, 8))
                      z  == ZlibDecompress(Concat([i \in 1..(n - 2) |-> cs[i + 1].data]))
                  IN  IF w < 1 \/ h < 1 \/ Slice(hd, 9, 13) # << 8, 6, 0, 0, 0 >> THEN Failed
                      ELSE IF ~z.ok THEN Failed
                      ELSE IF Len(z.data) # h * (1 + 4 * w) THEN Failed
                      ELSE IF \E r \in 0..(h - 1) : z.data[r * (1 + 4 * w) + 1] # 0 THEN Failed
                      ELSE [ok |-> TRUE, width |-> w, height |-> h,
                            pixels |-> Regroup(z.data, w, h)]

DecodesTo(b, w, h, px) ==
    PngDecode(b) = [ok |-> TRUE, width |-> w, height |-> h, pixels |-> px]

-----------------------------------------------------------------------------
(* Claims about create_png (SpecPng) *)

\* C1: round trip.  A call with Len(pixels) = width * height never raises, and
\* decoding the returned bytes gives back the same width, height and pixel
\* sequence, in the same order.
C1_RoundTrip ==
    Len(pixels) = width * height =>
        /\ pc # "raised"
        /\ pc = "done" => DecodesTo(out, width, height, pixels)

\* a 2 x 2 image with two different pixels has been encoded
C1_Witness ==
    /\ pc = "done"
    /\ width = 2 /\ height = 2 /\ Len(pixels) = 4
    /\ pixels[1] # pixels[2]
    /\ pixels[2] = << 255, 128, 1, 37 >>

\* C3 as stated: a call whose pixel sequence is shorter or longer than
\* width * height raises nothing, returns a buffer, and the buffer does not
\* decode with the given width and height.
C3_AsStated ==
    (pc \in {"done", "raised"} /\ Len(pixels) # width * height) =>
        /\ pc = "done"
        /\ LET d == PngDecode(out)
           IN  ~(d.ok /\ d.width = width /\ d.height = height)

\* C3 amended: a shorter sequence makes the call raise (IndexError) and return
\* no buffer; a longer sequence raises nothing and the buffer is a valid PNG
\* of the given width and height holding the first width * height pixels.
C3_Mismatch ==
    /\ (pc \in {"done", "raised"} /\ Len(pixels) < width * height) =>
            (pc = "raised" /\ out = <<>>)
    /\ (pc \in {"done", "raised"} /\ Len(pixels) > width * height) =>
            (pc = "done" /\ DecodesTo(out, width, height, SubSeq(pixels, 1, width * height)))
    /\ (pc = "pix" /\ Len(pixels) > width * height) => ~ENABLED PngIndexError

\* a call with one pixel too many has returned
C3_Witness ==
    /\ pc = "done"
    /\ Len(pixels) = width * height + 1
    /\ pixels[Len(pixels)] # pixels[1]

\* C8: chunk integrity.  Cutting the output after the signature into chunks by
\* their length fields consumes it exactly, and each chunk's stored CRC is the
\* CRC-32 of its type tag followed by its payload.
C8_ChunkIntegrity ==
    pc = "done" =>
        LET cs == ReadChunks(out, 9)
        IN  /\ Len(cs) >= 1
            /\ \A i \in 1..Len(cs) :
                  /\ cs[i].ok
                  /\ cs[i].crc = Crc32BE(cs[i].ctype \o cs[i].data)
                  /\ cs[i].data # <<>> => cs[i].crc # Crc32BE(cs[i].data)

\* a 2 x 1 image has been encoded
C8_Witness ==
    pc = "done" /\ width = 2 /\ height = 1 /\ Len(ReadChunks(out, 9)) = 3

\* C9: container layout.  Signature, then exactly IHDR, IDAT, IEND; the IHDR
\* payload is width, height, 8, 6, 0, 0, 0; the IEND payload is empty; the
\* inflated IDAT is height rows of one 0 byte and 4 * width pixel bytes.
C9_Layout ==
    pc = "done" =>
        LET cs == ReadChunks(out, 9)
        IN  /\ Slice(out, 1, 8) = << 137, 80, 78, 71, 13, 10, 26, 10 >>
            /\ Len(cs) = 3
            /\ \A i \in 1..3 : cs[i].ok
            /\ << cs[1].ctype, cs[2].ctype, cs[3].ctype >> = << TagIHDR, TagIDAT, TagIEND >>
            /\ cs[1].data = << 0, 0, 0, width, 0, 0, 0, height, 8, 6, 0, 0, 0 >>
            /\ cs[3].data = <<>>
            /\ LET z == ZlibDecompress(cs[2].data)
               IN  /\ z.ok
                   /\ z.data = raw
                   /\ Len(z.data) = height * (1 + 4 * width)
                   /\ \A r \in 0..(height - 1) :
                        /\ z.data[r * (1 + 4 * width) + 1] = 0
                        /\ \A c \in 0..(width - 1) :
                              Slice(z.data, r * (1 + 4 * width) + 2 + 4 * c,
                                            r * (1 + 4 * width) + 5 + 4 * c)
                                  = pixels[r * width + c + 1]

\* a 1 x 2 image has been encoded from a sequence with a pixel to spare
C9_Witness ==
    pc = "done" /\ width = 1 /\ height = 2 /\ Len(pixels) = 3

-----------------------------------------------------------------------------
(* Claims about generate_orb_icon (SpecOrb) *)

\* the coordinates of the pixel at (1-based) index i of a size S field
XOf(i, S) == (i - 1) % S
YOf(i, S) == (i - 1) \div S

\* C4 as stated: the single pixel of generate_orb_icon(1) passes the mask test
\* (sq is not greater than 1.0) and is a fully opaque, coloured pixel, not
\* (0, 0, 0, 0).
C4_AsStated ==
    (gpc = "done" /\ size = 1) =>
        /\ Len(gpixels) = 1
        /\ gpixels[1][4] = 255
        /\ gpixels[1] # << 0, 0, 0, 0 >>

\* C4 amended: generate_orb_icon(1) evaluates the single pixel (0, 0) with
\* cx = cy = 0.5; there |nx| = |ny| = 0.5 / 0.44 > 1, so sq > 1.0, the mask
\* test short-circuits, and the one returned pixel is (0, 0, 0, 0).
C4_MinimalSize ==
    size = 1 =>
        /\ sq(0, 0, 1)[1] > Q
        /\ ~sq_may_pass(0, 0, 1)
        /\ gpc = "done" => gpixels = << << 0, 0, 0, 0 >> >>

\* generate_orb_icon(1) has returned its one pixel
C4_Witness == gpc = "done" /\ size = 1 /\ Len(gpixels) = 1

\* C5: the pixel computed at loop position (x, y) is appended at index
\* y * S + x, on the masked and on the shaded path alike, so the returned
\* list has exactly S * S pixels, each one the code computes for the
\* coordinates of its index.
C5_LengthAndOrder ==
    /\ gpc = "loop" => (gx < size /\ Len(gpixels) = gy * size + gx)
    /\ gpc = "done" => Len(gpixels) = size * size
    /\ \A i \in 1..Len(gpixels) :
          \/ sq_may_exceed(XOf(i, size), YOf(i, size), size) /\ gpixels[i] = << 0, 0, 0, 0 >>
          \/ sq_may_pass(XOf(i, size), YOf(i, size), size)
                /\ gpixels[i] \in shaded_pixels(XOf(i, size), YOf(i, size), size)

\* a size 3 field has been returned, with pixels of both paths
C5_Witness ==
    /\ gpc = "done" /\ size = 3 /\ Len(gpixels) = 9
    /\ gpixels[1] = << 0, 0, 0, 0 >>
    /\ gpixels[9][4] = 255

\* C6: every channel of every pixel is an integer in 0..255.
C6_ClampRange ==
    \A i \in 1..Len(gpixels) : \A k \in 1..4 : gpixels[i][k] \in 0..255

\* a pixel whose accumulated red was negative and whose blue was above 255
C6_Witness ==
    /\ gpc = "done"
    /\ \E i \in 1..Len(gpixels) : gpixels[i] = << 0, 127, 255, 255 >>
    /\ \E i \in 1..Len(gpixels) : gpixels[i] = << 255, 0, 255, 255 >>

\* C7: a pixel whose sq is greater than 1.0 is exactly (0, 0, 0, 0).
C7_MaskShortCircuit ==
    \A i \in 1..Len(gpixels) :
        sq(XOf(i, size), YOf(i, size), size)[1] > Q => gpixels[i] = << 0, 0, 0, 0 >>

\* a returned field with a masked pixel (1, 0) beside a shaded pixel (1, 1)
C7_Witness ==
    /\ gpc = "done" /\ size = 3
    /\ sq(1, 0, 3)[1] > Q /\ gpixels[2] = << 0, 0, 0, 0 >>
    /\ sq(1, 1, 3)[2] <= Q /\ gpixels[5] # << 0, 0, 0, 0 >>

-----------------------------------------------------------------------------
(* Claims about main (SpecMain) *)

\* C2: IconSet completeness.  When main() has run to completion, whatever the
\* directory held before, every icon_{S}x{S}.png exists and holds
\* create_png(S, S, generate_orb_icon(S)), of dimensions S x S, and every
\* icon_{S}x{S}@2x.png exists and has the bytes of icon_{2S}x{2S}.png.
C2_Completeness ==
    mpc = "done" =>
        /\ \A S \in {16, 32, 64, 128, 256, 512, 1024} :
              /\ << "icon_", S, "x", S, ".png" >> \in DOMAIN fs
              /\ fs[<< "icon_", S, "x", S, ".png" >>].data
                    = [width |-> S, height |-> S, pixels |-> << "generate_orb_icon", S >>]
        /\ \A S \in {16, 32, 128, 256, 512} :
              /\ << "icon_", S, "x", S, "@2x.png" >> \in DOMAIN fs
              /\ << "icon_", 2 * S, "x", 2 * S, ".png" >> \in DOMAIN fs
              /\ fs[<< "icon_", S, "x", S, "@2x.png" >>].data
                    = fs[<< "icon_", 2 * S, "x", 2 * S, ".png" >>].data

\* main() has completed and the directory holds the twelve files
C2_Witness ==
    /\ mpc = "done"
    /\ Cardinality(DOMAIN fs) = 12
    /\ \A n \in DOMAIN fs : fs[n].mtime = "run"

\* C10: copy after write.  Whenever a copy is about to run, its source
\* icon_{2S}x{2S}.png exists and is the file this run wrote (never a missing
\* or left-over one), so the exists guard is true; and every copy already
\* passed has produced its @2x file from it: none was skipped.
C10_CopyAfterWrite ==
    /\ (mpc = "copy" /\ mi <= Len(copy_sizes)) =>
          LET S == copy_sizes[mi]
          IN  /\ << "icon_", 2 * S, "x", 2 * S, ".png" >> \in DOMAIN fs
              /\ fs[<< "icon_", 2 * S, "x", 2 * S, ".png" >>]
                    = [data |-> icon_data(2 * S), mtime |-> "run"]
    /\ mpc \in {"copy", "done"} =>
          \A j \in 1..(mi - 1) :
              LET S == copy_sizes[j]
              IN  /\ S \in {16, 32, 128, 256, 512}
                  /\ << "icon_", S, "x", S, "@2x.png" >> \in DOMAIN fs
                  /\ fs[<< "icon_", S, "x", S, "@2x.png" >>]
                        = [data |-> icon_data(2 * S), mtime |-> "run"]
    /\ mpc = "done" => mi = 6

\* the third copy is about to replace a left-over icon_128x128@2x.png
C10_Witness ==
    /\ mpc = "copy" /\ mi = 3
    /\ << "icon_", 128, "x", 128, "@2x.png" >> \in DOMAIN fs
    /\ fs[<< "icon_", 128, "x", 128, "@2x.png" >>] = StaleFile
    /\ fs[<< "icon_", 256, "x", 256, ".png" >>].mtime = "run"

=============================================================================
